---- MODULE Spec2Model ----
(***************************************************************************)
(* A model of anticsrf.token_clerk (src/anticsrf.py): the registry of      *)
(* anti-CSRF tokens with its two dictionaries current_tokens and           *)
(* expired_tokens, the clock microtime() and the public operations         *)
(* register_new, unregister, clean_expired, is_valid, are_valid, unexpire  *)
(* and __repr__, called one after the other (Spec) and by threads that     *)
(* share one registry (SpecThreads).                                       *)
(*                                                                         *)
(* Python dictionaries keep insertion order, and the stable sort of        *)
(* _clear_expired_kept depends on it, so a dictionary is a sequence of     *)
(* <<key, value>> pairs with pairwise distinct keys.  A token string is a  *)
(* sequence of character codes.  Every method is an operator from a        *)
(* machine record m (the object's dictionaries, the lock, the clock and    *)
(* the value returned or the exception raised) to the machine record the   *)
(* method leaves behind.                                                   *)
(***************************************************************************)
EXTENDS Integers, Sequences, FiniteSets, TLC

VARIABLES current_tokens, expired_tokens, expire_after, keysize, locked,
          clock, last, threads

vars == <<current_tokens, expired_tokens, expire_after, keysize, locked,
          clock, last, threads>>

(***************************************************************************)
(* Bounds of the model.                                                    *)
(***************************************************************************)
\* the clock runs over 0..MaxTime
MaxTime == 3
\* unregister and unexpire are called with at most MaxArgs tokens
MaxArgs == 2
\* the largest preset registry holds NFill tokens
NFill == 31
\* the number of threads that call the registry at the same time
NThreads == 2
\* token_clerk(keysize=...) runs over 1..MaxKeysize where the default key
\* generator is used
MaxKeysize == 5
\* by how much a reading of the clock is later than the one before it
Advance == {0, 1}

(***************************************************************************)
(* Program constants.                                                      *)
(***************************************************************************)
\* def _clear_expired_kept(self, trash=30)
DefaultTrash == 30

(***************************************************************************)
(* Values.                                                                 *)
(***************************************************************************)
\* Python's None as a returned value
None == "None"
\* an optional integer argument: <<>> is None, <<n>> is the integer n
NoInt == <<>>
\* an argument that is not of type str (its character code 0 is no character)
NonStr == <<0>>

Min(a, b) == IF a <= b THEN a ELSE b

Abs(n) == IF n < 0 THEN 0 - n ELSE n

\* type(t) == str
IsStr(t) == t # NonStr

(***************************************************************************)
(* Python dictionaries, in insertion order.                                *)
(***************************************************************************)
Keys(d) == {d[i][1] : i \in 1..Len(d)}

\* k in d
In(k, d) == k \in Keys(d)

\* d[k], for k in d
Get(d, k) == d[CHOOSE i \in 1..Len(d) : d[i][1] = k][2]

\* del d[k], for k in d
Del(d, k) == SelectSeq(d, LAMBDA p : p[1] # k)

\* d[k] = v: a key that is present keeps its place
Put(d, k, v) ==
    IF In(k, d)
    THEN [i \in 1..Len(d) |-> IF d[i][1] = k THEN <<k, v>> ELSE d[i]]
    ELSE Append(d, <<k, v>>)

\* d.update(e): the keys of d keep their places and take the values of e,
\* the new keys follow in the order of e
DictUpdate(d, e) ==
    [i \in 1..Len(d) |->
        IF In(d[i][1], e) THEN <<d[i][1], Get(e, d[i][1])>> ELSE d[i]]
    \o SelectSeq(e, LAMBDA p : ~In(p[1], d))

\* sorted(d.items(), key=lambda x: x[1]): ascending by value and stable, so
\* item i comes after the items of a smaller value and after the earlier
\* items of the same value
SortedByExp(d) ==
    LET pos(i) ==
            Cardinality({j \in 1..Len(d) : d[j][2] < d[i][2]})
            + Cardinality({j \in 1..i : d[j][2] = d[i][2]})
    IN  [k \in 1..Len(d) |-> d[CHOOSE i \in 1..Len(d) : pos(i) = k]]

\* s[n:]
Drop(s, n) == SubSeq(s, Min(n, Len(s)) + 1, Len(s))

(***************************************************************************)
(* The machine record: the object's fields, the clock and the outcome of   *)
(* the call in progress.                                                   *)
(*   cur, exd        self.current_tokens, self.expired_tokens              *)
(*   ttl, ksz        self.expire_after, self.keysize                       *)
(*   locked          whether the threading.Lock is held                    *)
(*   clk, adv, reads the last reading of the clock, the advances of the    *)
(*                   readings to come, the readings made by this call      *)
(*   calls           the methods this call has entered, in order           *)
(*   ret, exc        the value returned; the exception raised ("none" if   *)
(*                   none, "blocked" if the call waits for the lock and    *)
(*                   never returns)                                        *)
(***************************************************************************)
OK(m) == m.exc = "none"

Raise(m, e) == [m EXCEPT !.exc = e, !.ret = None]

Return(m, v) == [m EXCEPT !.ret = v]

\* the call enters the method f
Enter(m, f) == [m EXCEPT !.calls = Append(@, f)]

\* microtime(): the reading is m.clk of the result
microtime(m) ==
    LET step == IF m.adv = <<>> THEN 0 ELSE Head(m.adv)
        now  == Min(m.clk + step, MaxTime)
    IN  [m EXCEPT !.clk = now,
                  !.adv = IF m.adv = <<>> THEN <<>> ELSE Tail(m.adv),
                  !.reads = Append(m.reads, now)]

\* the attributes of an instance whose __init__ binds the lock as self.lock
InstanceAttrsWithLock ==
    {"current_tokens", "expired_tokens", "expire_after", "keysize",
     "keyfunc", "lock"}

\* the attributes __init__ binds on the instance: the threading.Lock is
\* bound as self.Lock, and no method ever binds self.lock
InstanceAttrs ==
    {"current_tokens", "expired_tokens", "expire_after", "keysize",
     "keyfunc", "Lock"}

\* "with self.lock:" on entry: the lookup of the attribute lock, which
\* raises AttributeError when the instance has none, then Lock.acquire(),
\* which waits for ever when the lock is held (it is not reentrant, and in
\* this machine a lock that is held is never released)
Acquire(m) ==
    IF "lock" \notin InstanceAttrs THEN Raise(m, "AttributeError")
    ELSE IF m.locked THEN Raise(m, "blocked")
    ELSE [m EXCEPT !.locked = TRUE]

\* "with self.lock:" on exit
Release(m) == [m EXCEPT !.locked = FALSE]

(***************************************************************************)
(* The private methods.                                                    *)
(***************************************************************************)
clear_expired_kept(m, trash) ==
    LET stoks == SortedByExp(m.exd)
        a     == Acquire(m)
    IN  IF ~OK(a) THEN a
        ELSE Return(Release([a EXCEPT !.exd = Drop(stoks, trash)]), None)

log_expired_tokens(m, tokens) ==
    LET c == clear_expired_kept(m, Len(tokens))
        a == Acquire(c)
    IN  IF ~OK(c) THEN c
        ELSE IF ~OK(a) THEN a
        ELSE Return(Release([a EXCEPT !.exd = DictUpdate(a.exd, tokens)]), None)

\* _register without the check of the length of tok
register_NoLengthCheck(m, tok, ea) ==
    LET life == IF ea = NoInt THEN m.ttl ELSE ea[1]
        t    == microtime(m)
        now  == t.clk
        exp  == now + life
        a    == Acquire(t)
    IN  IF ~OK(a) THEN a
        ELSE Return(Release([a EXCEPT !.cur = Put(a.cur, tok, exp)]),
                    [tok |-> tok, iat |-> now, exp |-> exp])

register(m, tok, ea) ==
    LET life == IF ea = NoInt THEN m.ttl ELSE ea[1]
        t    == microtime(m)
        now  == t.clk
        exp  == now + life
        a    == Acquire(t)
    IN  IF Len(tok) # m.ksz THEN Raise(m, "ValueError")
        ELSE IF ~OK(a) THEN a
        ELSE Return(Release([a EXCEPT !.cur = Put(a.cur, tok, exp)]),
                    [tok |-> tok, iat |-> now, exp |-> exp])

(***************************************************************************)
(* The public methods.                                                     *)
(***************************************************************************)
\* the loop of clean_expired over copyitems, a copy of m.cur.  Every item
\* with now >= exp enters "with self.lock:", adds itself to the local
\* dictionary expire and is deleted from current_tokens.  The first such
\* item decides whether the lock can be taken; when it can, every later
\* one finds it released again, and every key is still in current_tokens.
CleanLoop(m, items, now) ==
    LET due == SelectSeq(items, LAMBDA p : now >= p[2])
        a   == Acquire(m)
    IN  IF due = <<>> THEN [m |-> m, expire |-> <<>>]
        ELSE IF ~OK(a) THEN [m |-> a, expire |-> <<>>]
        ELSE [m |-> Release([a EXCEPT !.cur =
                                SelectSeq(a.cur, LAMBDA p : ~In(p[1], due))]),
              expire |-> due]

clean_expired(m) ==
    LET e    == Enter(m, "clean_expired")
        plen == Len(e.cur)
        t    == microtime(e)
        loop == CleanLoop(t, t.cur, t.clk)
        l    == log_expired_tokens(loop.m, loop.expire)
    IN  IF plen = 0 THEN Return(e, 0)
        ELSE IF ~OK(loop.m) THEN loop.m
        ELSE IF ~OK(l) THEN l
        ELSE Return(l, Abs(Len(l.cur) - plen))

\* the loop of unregister over tokens
RECURSIVE UnregisterLoop(_, _, _, _)
UnregisterLoop(m, tokens, expire, expd) ==
    IF tokens = <<>> THEN [m |-> m, expire |-> expire, expd |-> expd]
    ELSE LET t == Head(tokens)
             a == Acquire(m)
         IN  IF In(t, m.cur)
             THEN IF ~OK(a)
                  THEN [m |-> a, expire |-> Put(expire, t, Get(m.cur, t)),
                        expd |-> expd + 1]
                  ELSE UnregisterLoop(
                           Release([a EXCEPT !.cur = Del(a.cur, t)]),
                           Tail(tokens), Put(expire, t, Get(m.cur, t)),
                           expd + 1)
             ELSE UnregisterLoop(m, Tail(tokens), expire, expd)

unregister(m, tokens, clr, clean) ==
    LET \* if clr:
        a    == Acquire(m)
        lg   == log_expired_tokens(a, a.cur)
        \* otherwise
        c    == IF clean THEN clean_expired(m) ELSE Return(m, 0)
        loop == UnregisterLoop(c, tokens, <<>>, c.ret)
        l    == log_expired_tokens(loop.m, loop.expire)
    IN  IF clr
        THEN IF ~OK(a) THEN a
             ELSE IF ~OK(lg) THEN lg
             ELSE Return(Release([lg EXCEPT !.cur = <<>>]), Len(m.cur))
        ELSE IF ~OK(c) THEN c
        ELSE IF tokens = <<>> THEN c
        ELSE IF \E i \in 1..Len(tokens) : ~IsStr(tokens[i])
        THEN Raise(c, "TypeError")
        ELSE IF ~OK(loop.m) THEN loop.m
        ELSE IF ~OK(l) THEN l
        ELSE Return(l, loop.expd)

\* the lookup of is_valid, after its sweep
Info(m, tok) ==
    IF In(tok, m.cur)
    THEN [reg |-> TRUE, exp |-> Get(m.cur, tok), old |-> FALSE]
    ELSE IF In(tok, m.exd)
    THEN [reg |-> FALSE, exp |-> Get(m.exd, tok), old |-> TRUE]
    ELSE [reg |-> FALSE, exp |-> 0, old |-> FALSE]

is_valid(m, tok, clean) ==
    LET e == Enter(m, "is_valid")
        c == IF clean THEN clean_expired(e) ELSE e
    IN  IF ~OK(c) THEN c ELSE Return(c, Info(c, tok))

\* the comprehension of are_valid unpacks is_valid(token).items(), the three
\* items of the dictionary {reg, exp, old}, into the two names tok and inf;
\* this raises ValueError at the first token, after its is_valid call
are_valid(m, tokens, clean) ==
    LET e == Enter(m, "are_valid")
        c == IF clean THEN clean_expired(e) ELSE e
        v == is_valid(c, Head(tokens), TRUE)
    IN  IF ~OK(c) THEN c
        ELSE IF tokens = <<>> THEN Return(c, <<>>)
        ELSE IF ~OK(v) THEN v
        ELSE Raise(v, "ValueError")

\* is_valid(tok) for a tok of type tuple, list or set
is_valid_of_list(m, tokens, clean) ==
    LET e == Enter(m, "is_valid")
        c == IF clean THEN clean_expired(e) ELSE e
    IN  IF ~OK(c) THEN c ELSE are_valid(c, tokens, clean)

\* is_valid(tok) for a tok of type dict, as register_new returns it
is_valid_of_dict(m, d, clean) ==
    LET e == Enter(m, "is_valid")
        c == IF clean THEN clean_expired(e) ELSE e
    IN  IF ~OK(c) THEN c ELSE Return(c, Info(c, d.tok))

register_new(m, clean, key) ==
    LET e == Enter(m, "register_new")
        c == IF clean THEN clean_expired(e) ELSE e
    IN  IF ~OK(c) THEN c ELSE register(Enter(c, "keyfunc"), key, NoInt)

\* the loop of unexpire over tokens; res is the dictionary returned
RECURSIVE UnexpireLoop(_, _, _, _)
UnexpireLoop(m, tokens, ea, res) ==
    IF tokens = <<>> THEN Return(m, res)
    ELSE LET tok == Head(tokens)
             v   == is_valid(m, tok, TRUE)
             r   == register(v, tok, ea)
             a   == Acquire(r)
         IN  IF ~OK(v) THEN v
             ELSE IF v.ret.old /\ ~v.ret.reg
             THEN IF ~OK(r) THEN r
                  ELSE IF ~OK(a) THEN a
                  ELSE UnexpireLoop(
                           Release([a EXCEPT !.exd = Del(a.exd, tok)]),
                           Tail(tokens), ea, Put(res, tok, r.ret))
             ELSE UnexpireLoop(v, Tail(tokens), ea, res)

unexpire(m, tokens, ea) ==
    UnexpireLoop(m, tokens, IF ea = NoInt THEN <<m.ttl>> ELSE ea, <<>>)

\* os.urandom(n): any n bytes
Bytes == {0, 171, 255}

urandom(n) == [1..n -> Bytes]

\* the characters "0123456789abcdef"
HexDigits == <<48, 49, 50, 51, 52, 53, 54, 55, 56, 57, 97, 98, 99, 100, 101, 102>>

\* binascii.hexlify(b).decode("ascii"): two hexadecimal digits for a byte
hexlify(b) ==
    [i \in 1..(2 * Len(b)) |->
        LET byte == b[(i + 1) \div 2]
        IN  HexDigits[(IF i % 2 = 1 THEN byte \div 16 ELSE byte % 16) + 1]]

\* random_key(keysize): what the default key generator can return
random_key(ksz) == {hexlify(b) : b \in urandom(ksz \div 2)}

\* a < b for two strings, as Python compares them
StrLess(a, b) ==
    \E k \in 1..(Min(Len(a), Len(b)) + 1) :
        /\ \A j \in 1..(k - 1) : a[j] = b[j]
        /\ IF k > Len(a) THEN k <= Len(b)
           ELSE k <= Len(b) /\ a[k] < b[k]

\* pprint.pformat(d) and the dictionary its text evaluates to: pformat
\* prints the items of d sorted by key, so a dictionary whose keys are in
\* order already is printed as it is, and in any other every item takes the
\* place after the items of a smaller key
pformat(d) ==
    LET pos == [i \in 1..Len(d) |->
                   1 + Cardinality({j \in 1..Len(d) : StrLess(d[j][1], d[i][1])})]
    IN  IF \A i \in 1..(Len(d) - 1) : StrLess(d[i][1], d[i + 1][1]) THEN d
        ELSE [k \in 1..Len(d) |-> d[CHOOSE i \in 1..Len(d) : pos[i] = k]]

\* self.keyfunc.__name__, and the function the name is bound to
keyfunc == "keyfun_r"

\* repr(self): the keyword arguments the text spells out
repr(m) ==
    [preset_tokens  |-> pformat(m.cur),
     expire_after   |-> m.ttl,
     keyfunc        |-> keyfunc,
     keysize        |-> m.ksz,
     expired_tokens |-> pformat(m.exd)]

\* token_clerk(**args): __init__ takes preset_tokens, expire_after, keysize
\* and keyfunc; every other keyword lands in **kwargs, which it never reads
token_clerk(args) ==
    [current_tokens |-> args.preset_tokens,
     expired_tokens |-> <<>>,
     expire_after   |-> args.expire_after,
     keysize        |-> args.keysize,
     keyfunc        |-> args.keyfunc]

(***************************************************************************)
(* The inputs: what the callers pass and what the key generator returns.   *)
(***************************************************************************)
\* self.keyfunc(self.keysize): a string that is too short, of the length
\* asked for, or too long
KeyOutputs == {<<1>>, <<1, 1>>, <<1, 2>>, <<2, 2>>, <<1, 1, 1>>}

\* the token arguments of the callers
ArgToks == {<<1, 1>>, <<1, 2>>, NonStr}

\* *tokens
TokenLists == UNION {[1..n -> ArgToks] : n \in 0..MaxArgs}

\* the advances of the n readings of the clock a call makes; the readings
\* after the n-th return what the n-th returned
Advances(n) == [1..n -> Advance]

\* token_clerk(preset_tokens=...): the empty registry, {"a": 1} of the
\* round-trip test, registries of one and two tokens, and one of NFill
\* tokens that are all due at time 1
FillTok(i) == <<3, i>>

FillPreset == [i \in 1..NFill |-> <<FillTok(i), 1>>]

Presets ==
    {<<>>,
     << <<<<1>>, 1>> >>,
     << <<<<1, 1>>, 1>> >>,
     << <<<<1, 1>>, 1>>, <<<<1, 2>>, 3>> >>,
     FillPreset}

\* token_clerk(expire_after=...)
Lifetimes == {0, 2}

\* token_clerk(keysize=...)
KeySizes == {2}

(***************************************************************************)
(* The state machine.  last records the call that was made last: its name  *)
(* and arguments, the dictionaries and the clock before it, the readings   *)
(* of the clock it made and what it returned or raised.                    *)
(***************************************************************************)
\* token_clerk.__init__
Init ==
    /\ current_tokens \in Presets
    /\ expired_tokens = <<>>
    /\ expire_after \in Lifetimes
    /\ keysize \in KeySizes
    /\ locked = FALSE
    /\ clock = 0
    /\ last = [op |-> "__init__", toks |-> <<>>, clr |-> FALSE,
               clean |-> FALSE, ea |-> NoInt, pre_cur |-> current_tokens,
               pre_exd |-> <<>>, reads |-> <<>>, calls |-> <<>>,
               ret |-> None, exc |-> "none"]
    /\ threads = <<>>

\* the machine record a call starts from
Machine(adv) ==
    [cur |-> current_tokens, exd |-> expired_tokens, ttl |-> expire_after,
     ksz |-> keysize, locked |-> locked, clk |-> clock, adv |-> adv,
     reads |-> <<>>, calls |-> <<>>, ret |-> None, exc |-> "none"]

\* the call op has run to its end r
Completes(op, toks, clr, clean, ea, r) ==
    /\ current_tokens' = r.cur
    /\ expired_tokens' = r.exd
    /\ locked' = r.locked
    /\ clock' = r.clk
    /\ last' = [op |-> op, toks |-> toks, clr |-> clr, clean |-> clean,
                ea |-> ea, pre_cur |-> current_tokens,
                pre_exd |-> expired_tokens, reads |-> r.reads,
                calls |-> r.calls, ret |-> r.ret, exc |-> r.exc]
    /\ UNCHANGED <<expire_after, keysize, threads>>

RegisterNew ==
    \E clean \in BOOLEAN, key \in KeyOutputs, adv \in Advances(2) :
        Completes("register_new", <<key>>, FALSE, clean, NoInt,
                  register_new(Machine(adv), clean, key))

Unregister ==
    \E tokens \in TokenLists, clr \in BOOLEAN, clean \in BOOLEAN,
       adv \in Advances(1) :
        /\ clr => tokens = <<>>
        /\ Completes("unregister", tokens, clr, clean, NoInt,
                     unregister(Machine(adv), tokens, clr, clean))

CleanExpired ==
    \E adv \in Advances(1) :
        Completes("clean_expired", <<>>, FALSE, FALSE, NoInt,
                  clean_expired(Machine(adv)))

IsValid ==
    \E tok \in ArgToks \ {NonStr}, clean \in BOOLEAN, adv \in Advances(1) :
        Completes("is_valid", <<tok>>, FALSE, clean, NoInt,
                  is_valid(Machine(adv), tok, clean))

\* are_valid(*tokens), and is_valid(tok) for a list tok and for a dict tok
AreValid ==
    \E tokens \in TokenLists, clean \in BOOLEAN, adv \in Advances(1) :
        /\ \A i \in 1..Len(tokens) : IsStr(tokens[i])
        /\ \/ Completes("are_valid", tokens, FALSE, clean, NoInt,
                         are_valid(Machine(adv), tokens, clean))
           \/ Completes("is_valid_of_list", tokens, FALSE, clean, NoInt,
                         is_valid_of_list(Machine(adv), tokens, clean))
           \/ /\ Len(tokens) = 1
              /\ Completes("is_valid_of_dict", tokens, FALSE, clean, NoInt,
                           is_valid_of_dict(Machine(adv),
                               [tok |-> tokens[1], iat |-> 0, exp |-> 0],
                               clean))

\* x = eval(repr(t)), as test_roundtrips does; last.ret is x
EvalRepr ==
    /\ last' = [op |-> "eval_repr", toks |-> <<>>, clr |-> FALSE,
                clean |-> FALSE, ea |-> NoInt, pre_cur |-> current_tokens,
                pre_exd |-> expired_tokens, reads |-> <<>>, calls |-> <<>>,
                ret |-> token_clerk(repr(Machine(<<>>))), exc |-> "none"]
    /\ UNCHANGED <<current_tokens, expired_tokens, expire_after, keysize,
                   locked, clock, threads>>

Unexpire ==
    \E tokens \in TokenLists, ea \in {NoInt, <<1>>}, adv \in Advances(2) :
        /\ \A i \in 1..Len(tokens) : IsStr(tokens[i])
        /\ Completes("unexpire", tokens, FALSE, TRUE, ea,
                     unexpire(Machine(adv), tokens, ea))

\* time passes between two calls
Tick ==
    /\ clock < MaxTime
    /\ clock' = clock + 1
    /\ UNCHANGED <<current_tokens, expired_tokens, expire_after, keysize,
                   locked, last, threads>>

Next ==
    \/ RegisterNew
    \/ Unregister
    \/ CleanExpired
    \/ IsValid
    \/ AreValid
    \/ EvalRepr
    \/ Unexpire
    \/ Tick

Spec == Init /\ [][Next]_vars

(***************************************************************************)
(* The registry with the default key generator random_key, for every       *)
(* keysize of 1..MaxKeysize.                                               *)
(***************************************************************************)
\* token_clerk(keysize=k), keyfunc left at its default
InitRandomKey ==
    /\ current_tokens = <<>>
    /\ expired_tokens = <<>>
    /\ expire_after \in Lifetimes
    /\ keysize \in 1..MaxKeysize
    /\ locked = FALSE
    /\ clock = 0
    /\ last = [op |-> "__init__", toks |-> <<>>, clr |-> FALSE,
               clean |-> FALSE, ea |-> NoInt, pre_cur |-> <<>>,
               pre_exd |-> <<>>, reads |-> <<>>, calls |-> <<>>,
               ret |-> None, exc |-> "none"]
    /\ threads = <<>>

\* register_new, with self.keyfunc = random_key
RegisterNewRandomKey ==
    \E clean \in BOOLEAN, key \in random_key(keysize), adv \in Advances(2) :
        Completes("register_new", <<key>>, FALSE, clean, NoInt,
                  register_new(Machine(adv), clean, key))

NextRandomKey ==
    \/ RegisterNewRandomKey
    \/ Tick

SpecRandomKey == InitRandomKey /\ [][NextRandomKey]_vars

(***************************************************************************)
(* The registry under threads.  Every thread makes one call, register_new  *)
(* or clean_expired, both with the sweep of clean_expired first, and a     *)
(* step of a thread is what it does up to its next access to the state the *)
(* threads share: the two dictionaries, the lock and the clock.  A thread  *)
(* record holds the position pc of the thread and the local variables of   *)
(* the methods it is in.                                                   *)
(***************************************************************************)
ThreadOps ==
    {"register_new", "clean_expired", "unregister", "is_valid", "are_valid",
     "unexpire"}

\* a thread about to call op(*toks, clr=clr), every other argument at its
\* default.  sweep_to and log_to are the positions clean_expired and
\* _log_expired_tokens return to, holds is whether the thread is inside a
\* "with self.lock:" of its own, ret is <<>> until the call returns v and
\* <<v>> from then on.
Thread(op, toks, clr) ==
    [op |-> op, toks |-> toks, clr |-> clr, pc |-> "call",
     sweep_to |-> "call", log_to |-> "call", holds |-> FALSE,
     plen |-> 0, now |-> 0, items |-> <<>>, expire |-> <<>>, stoks |-> <<>>,
     rest |-> <<>>, tok |-> <<>>, expd |-> 0, res |-> <<>>,
     key |-> <<>>, exp |-> 0, reads |-> <<>>, ret |-> <<>>, exc |-> "none"]

\* the tokens the threads name
ThreadToks == {<<1, 1>>}

\* the calls a thread can make: register_new(), clean_expired(),
\* unregister(clr=True), and unregister(t), is_valid(t), are_valid(t) and
\* unexpire(t) for the tokens t
ThreadCalls ==
    <<Thread("register_new", <<>>, FALSE), Thread("clean_expired", <<>>, FALSE),
      Thread("unregister", <<>>, TRUE)>>
    \o [i \in 1..(4 * Cardinality(ThreadToks)) |->
           LET t == CHOOSE x \in ThreadToks : TRUE
           IN  Thread(<<"unregister", "is_valid", "are_valid", "unexpire">>[i],
                      <<t>>, FALSE)]

\* the calls of the NThreads threads.  The threads differ in nothing but
\* their calls, so the calls are taken in the order of ThreadCalls: every
\* other assignment of calls to threads is one of these with the threads
\* renamed.
ThreadVectors ==
    {[t \in 1..NThreads |-> ThreadCalls[f[t]]] :
        f \in {g \in [1..NThreads -> 1..Len(ThreadCalls)] :
                  \A i \in 1..(NThreads - 1) : g[i] <= g[i + 1]}}

\* the registries the threads share: empty, of one token and of two
ThreadPresets == {d \in Presets : Len(d) <= 2 /\ \A i \in 1..Len(d) : Len(d[i][1]) = 2}

Goto(th, pc) == [th EXCEPT !.pc = pc]

\* the call of the thread ends with the exception e; an exception leaves
\* every "with self.lock:" the thread is inside
Fails(th, e) == [th EXCEPT !.pc = "done", !.exc = e, !.holds = FALSE]

\* the call of the thread returns v
Returns(th, v) == [th EXCEPT !.pc = "done", !.ret = <<v>>]

\* self.clean_expired(), to return to the position to
CallSweep(th, to) == [th EXCEPT !.sweep_to = to, !.pc = "ce_len"]

\* clean_expired returns n: to the thread, or to the caller, of which only
\* unregister keeps n
SweepReturns(th, n) ==
    IF th.op = "clean_expired" THEN Returns(th, n)
    ELSE [th EXCEPT !.pc = th.sweep_to, !.expd = n]

\* self._log_expired_tokens(tokens), to return to the position to
CallLog(th, tokens, to) ==
    [th EXCEPT !.expire = tokens, !.log_to = to, !.pc = "cek_sort"]

\* is_valid returns info: to the thread; to the comprehension of are_valid,
\* which raises ValueError unpacking its items; or to unexpire, which
\* registers tok again if it is old and not registered
LookupReturns(th, info) ==
    IF th.op = "is_valid" THEN Returns(th, info)
    ELSE IF th.op = "are_valid" THEN Fails(th, "ValueError")
    ELSE IF info.old /\ ~info.reg
    THEN [th EXCEPT !.key = th.tok, !.pc = "reg_check"]
    ELSE [th EXCEPT !.rest = Tail(@), !.pc = "ux_loop"]

\* _register returns rec: to register_new, which returns it, or to unexpire
RegisterReturns(th, rec) ==
    IF th.op = "register_new" THEN Returns(th, rec)
    ELSE [th EXCEPT !.res = Put(@, th.tok, rec), !.pc = "ux_lock"]

\* the positions at "with self.lock:"
LockPcs ==
    {"ce_lock", "cek_lock", "log_lock", "reg_lock", "un_lock", "clr_lock",
     "ux_lock"}

\* a thread at "with self.lock:" waits while the lock is held, by another
\* thread or by itself
Waits(m, th) == th.pc \in LockPcs /\ Acquire(m).exc = "blocked"

\* "with self.lock:" on entry, for a thread that does not wait; the body
\* of the statement is at the position body
Enters(m, th, body) ==
    LET a == Acquire(m)
    IN  IF OK(a) THEN [m |-> a, th |-> [th EXCEPT !.pc = body, !.holds = TRUE]]
        ELSE [m |-> m, th |-> Fails(th, a.exc)]

\* "with self.lock:" on exit, by the end of its body or by an exception
Leaves(th) == [th EXCEPT !.holds = FALSE]

\* one step of the thread th on the shared state m; key is what the key
\* generator returns if th is about to call it
thread_step(m, th, key) ==
    LET local(t) == [m |-> m, th |-> t]
        tok      == th.items[1][1]
        exp      == th.items[1][2]
    IN  CASE th.pc = "call" ->
                IF th.op = "unexpire"
                THEN local([th EXCEPT !.rest = th.toks, !.res = <<>>,
                                      !.pc = "ux_loop"])
                ELSE IF th.op = "unregister" /\ th.clr
                THEN local(Goto(th, "clr_len"))
                ELSE local(CallSweep(th,
                         CASE th.op = "register_new" -> "keyfunc"
                           [] th.op = "clean_expired" -> "done"
                           [] th.op = "unregister" -> "un_swept"
                           [] th.op = "is_valid" -> "iv_test"
                           [] th.op = "are_valid" -> "av_iter"))
          \* clean_expired: plen = len(self.current_tokens)
          [] th.pc = "ce_len" ->
                IF Len(m.cur) = 0 THEN local(SweepReturns(th, 0))
                ELSE local([th EXCEPT !.plen = Len(m.cur), !.pc = "ce_time"])
          \* expire = dict(); now = microtime()
          [] th.pc = "ce_time" ->
                local([th EXCEPT !.expire = <<>>, !.now = m.clk,
                                 !.reads = Append(@, m.clk), !.pc = "ce_copy"])
          \* copyitems = self.current_tokens.copy().items()
          [] th.pc = "ce_copy" ->
                local([th EXCEPT !.items = m.cur, !.pc = "ce_loop"])
          \* for tok, exp in copyitems: if now >= exp:
          [] th.pc = "ce_loop" ->
                IF th.items = <<>>
                THEN local(CallLog(th, th.expire, "ce_ret"))
                ELSE IF th.now >= exp THEN local(Goto(th, "ce_lock"))
                ELSE local([th EXCEPT !.items = Tail(@)])
          [] th.pc = "ce_lock" -> Enters(m, th, "ce_del")
          \* expire.update({tok: exp}); del self.current_tokens[tok]
          [] th.pc = "ce_del" ->
                IF In(tok, m.cur)
                THEN [m  |-> Release([m EXCEPT !.cur = Del(@, tok)]),
                      th |-> Leaves([th EXCEPT !.expire = Put(@, tok, exp),
                                               !.items = Tail(@),
                                               !.pc = "ce_loop"])]
                ELSE [m  |-> Release(m),
                      th |-> Fails([th EXCEPT !.expire = Put(@, tok, exp)],
                                   "KeyError")]
          \* _log_expired_tokens(tokens), _clear_expired_kept(len(tokens)):
          \* stoks = sorted(self.expired_tokens.items(), ...)
          [] th.pc = "cek_sort" ->
                local([th EXCEPT !.stoks = SortedByExp(m.exd),
                                 !.pc = "cek_lock"])
          [] th.pc = "cek_lock" -> Enters(m, th, "cek_write")
          \* self.expired_tokens = dict(stoks[trash:])
          [] th.pc = "cek_write" ->
                [m  |-> Release([m EXCEPT !.exd =
                                    Drop(th.stoks, Len(th.expire))]),
                 th |-> Leaves(Goto(th, "log_lock"))]
          [] th.pc = "log_lock" -> Enters(m, th, "log_write")
          \* self.expired_tokens.update(tokens)
          [] th.pc = "log_write" ->
                [m  |-> Release([m EXCEPT !.exd = DictUpdate(@, th.expire)]),
                 th |-> Leaves(Goto(th, th.log_to))]
          \* return abs(len(self.current_tokens) - plen)
          [] th.pc = "ce_ret" ->
                local(SweepReturns(th, Abs(Len(m.cur) - th.plen)))
          \* register_new: self.keyfunc(self.keysize)
          [] th.pc = "keyfunc" ->
                local([th EXCEPT !.key = key, !.pc = "reg_check"])
          \* _register: the check of len(tok), now = microtime(),
          \* exp = now + expire_after
          [] th.pc = "reg_check" ->
                IF Len(th.key) # m.ksz THEN local(Fails(th, "ValueError"))
                ELSE local([th EXCEPT !.now = m.clk, !.exp = m.clk + m.ttl,
                                      !.reads = Append(@, m.clk),
                                      !.pc = "reg_lock"])
          [] th.pc = "reg_lock" -> Enters(m, th, "reg_write")
          \* self.current_tokens[tok] = exp
          [] th.pc = "reg_write" ->
                [m  |-> Release([m EXCEPT !.cur = Put(@, th.key, th.exp)]),
                 th |-> Leaves(RegisterReturns(th,
                            [tok |-> th.key, iat |-> th.now, exp |-> th.exp]))]
          \* unregister(clr=True): expd = len(self.current_tokens)
          [] th.pc = "clr_len" ->
                local([th EXCEPT !.expd = Len(m.cur), !.pc = "clr_lock"])
          [] th.pc = "clr_lock" -> Enters(m, th, "clr_copy")
          \* self._log_expired_tokens(self.current_tokens.copy())
          [] th.pc = "clr_copy" -> local(CallLog(th, m.cur, "clr_write"))
          \* self.current_tokens = dict(); return expd
          [] th.pc = "clr_write" ->
                [m  |-> Release([m EXCEPT !.cur = <<>>]),
                 th |-> Leaves(Returns(th, th.expd))]
          \* unregister: if not tokens; the check of the types; expire = dict()
          [] th.pc = "un_swept" ->
                IF th.toks = <<>> THEN local(Returns(th, th.expd))
                ELSE IF \E i \in 1..Len(th.toks) : ~IsStr(th.toks[i])
                THEN local(Fails(th, "TypeError"))
                ELSE local([th EXCEPT !.expire = <<>>, !.rest = th.toks,
                                      !.pc = "un_test"])
          \* for t in tokens: if t in self.current_tokens: expd += 1
          [] th.pc = "un_test" ->
                IF th.rest = <<>>
                THEN local(CallLog(th, th.expire, "un_ret"))
                ELSE IF In(Head(th.rest), m.cur)
                THEN local([th EXCEPT !.expd = @ + 1, !.pc = "un_get"])
                ELSE local([th EXCEPT !.rest = Tail(@)])
          \* expire.update({t: self.current_tokens[t]})
          [] th.pc = "un_get" ->
                IF In(Head(th.rest), m.cur)
                THEN local([th EXCEPT !.expire = Put(@, Head(th.rest),
                                                 Get(m.cur, Head(th.rest))),
                                      !.pc = "un_lock"])
                ELSE local(Fails(th, "KeyError"))
          [] th.pc = "un_lock" -> Enters(m, th, "un_del")
          \* del self.current_tokens[t]
          [] th.pc = "un_del" ->
                IF In(Head(th.rest), m.cur)
                THEN [m  |-> Release([m EXCEPT !.cur = Del(@, Head(th.rest))]),
                      th |-> Leaves([th EXCEPT !.rest = Tail(@),
                                               !.pc = "un_test"])]
                ELSE [m |-> Release(m), th |-> Fails(th, "KeyError")]
          \* return expd
          [] th.pc = "un_ret" -> local(Returns(th, th.expd))
          \* are_valid: the comprehension takes its first token and calls
          \* self.is_valid(token), which sweeps again
          [] th.pc = "av_iter" ->
                IF th.toks = <<>> THEN local(Returns(th, <<>>))
                ELSE local(CallSweep(th, "iv_test"))
          \* is_valid: if tok in self.current_tokens
          [] th.pc = "iv_test" ->
                LET t == IF th.op = "unexpire" THEN Head(th.rest)
                         ELSE th.toks[1]
                IN  IF In(t, m.cur)
                    THEN local([th EXCEPT !.tok = t, !.pc = "iv_get"])
                    ELSE local([th EXCEPT !.tok = t, !.pc = "iv_old"])
          \* "exp": self.current_tokens[tok]
          [] th.pc = "iv_get" ->
                IF In(th.tok, m.cur)
                THEN local(LookupReturns(th,
                         [reg |-> TRUE, exp |-> Get(m.cur, th.tok),
                          old |-> FALSE]))
                ELSE local(Fails(th, "KeyError"))
          \* elif tok in self.expired_tokens
          [] th.pc = "iv_old" ->
                IF In(th.tok, m.exd) THEN local(Goto(th, "iv_old_get"))
                ELSE local(LookupReturns(th,
                         [reg |-> FALSE, exp |-> 0, old |-> FALSE]))
          \* "exp": self.expired_tokens[tok]
          [] th.pc = "iv_old_get" ->
                IF In(th.tok, m.exd)
                THEN local(LookupReturns(th,
                         [reg |-> FALSE, exp |-> Get(m.exd, th.tok),
                          old |-> TRUE]))
                ELSE local(Fails(th, "KeyError"))
          \* unexpire: for tok in tokens: info = self.is_valid(tok)
          [] th.pc = "ux_loop" ->
                IF th.rest = <<>> THEN local(Returns(th, th.res))
                ELSE local(CallSweep(th, "iv_test"))
          [] th.pc = "ux_lock" -> Enters(m, th, "ux_del")
          \* del self.expired_tokens[tok]
          [] th.pc = "ux_del" ->
                IF In(th.tok, m.exd)
                THEN [m  |-> Release([m EXCEPT !.exd = Del(@, th.tok)]),
                      th |-> Leaves([th EXCEPT !.rest = Tail(@),
                                               !.pc = "ux_loop"])]
                ELSE [m |-> Release(m), th |-> Fails(th, "KeyError")]

\* NThreads threads call one token_clerk
InitThreads ==
    /\ current_tokens \in ThreadPresets
    /\ expired_tokens = <<>>
    /\ expire_after \in Lifetimes
    /\ keysize \in KeySizes
    /\ locked = FALSE
    /\ clock = 0
    /\ last = [op |-> "__init__", toks |-> <<>>, clr |-> FALSE,
               clean |-> FALSE, ea |-> NoInt, pre_cur |-> current_tokens,
               pre_exd |-> <<>>, reads |-> <<>>, calls |-> <<>>,
               ret |-> None, exc |-> "none"]
    /\ threads \in ThreadVectors

\* the thread t takes its next step
Step(t) ==
    /\ threads[t].pc # "done"
    /\ ~Waits(Machine(<<>>), threads[t])
    /\ \E key \in IF threads[t].pc = "keyfunc" THEN KeyOutputs ELSE {<<>>} :
           LET r == thread_step(Machine(<<>>), threads[t], key)
           IN  /\ current_tokens' = r.m.cur
               /\ expired_tokens' = r.m.exd
               /\ locked' = r.m.locked
               /\ threads' = [threads EXCEPT ![t] = r.th]
    /\ UNCHANGED <<expire_after, keysize, clock, last>>

NextThreads ==
    \/ \E t \in 1..NThreads : Step(t)
    \/ Tick

SpecThreads == InitThreads /\ [][NextThreads]_vars

\* the interpreter runs every thread that can run: a thread that is not
\* waiting for the lock takes its next step sooner or later
SpecThreadsFair ==
    SpecThreads /\ \A t \in 1..NThreads : WF_vars(Step(t))

(***************************************************************************)
(* The properties.  They speak of the call recorded in last and of the     *)
(* dictionaries it left behind.                                            *)
(***************************************************************************)
\* the keys of d whose expiry is <= now
Due(d, now) == {d[i][1] : i \in {j \in 1..Len(d) : d[j][2] <= now}}

\* what the sweep that opens the call in last removes from pre_cur
Swept ==
    IF last.clean /\ last.pre_cur # <<>>
    THEN Due(last.pre_cur, last.reads[1]) ELSE {}

\* the machine record of a call that starts now, with no time passing
Here == Machine(<<>>)

Unknown == [reg |-> FALSE, exp |-> 0, old |-> FALSE]

\* C1: when the key generator returns a string of keysize characters,
\* register_new returns {tok, iat, exp} with exp - iat = expire_after, tok
\* is a key of current_tokens with value exp, and is_valid(tok) called
\* right afterwards returns reg = True, old = False, exp = exp.
C1_RegisterNewRegisters ==
    (last.op = "register_new" /\ Len(last.toks[1]) = keysize) =>
        /\ last.exc = "none"
        /\ last.ret.tok = last.toks[1]
        /\ last.ret.exp - last.ret.iat = expire_after
        /\ In(last.ret.tok, current_tokens)
        /\ Get(current_tokens, last.ret.tok) = last.ret.exp
        /\ LET v == is_valid([Here EXCEPT !.clk = last.ret.iat],
                             last.ret.tok, TRUE)
           IN  /\ OK(v)
               /\ v.ret = [reg |-> TRUE, exp |-> last.ret.exp, old |-> FALSE]

C5_SweptTokenIsOld ==
    last.op = "clean_expired" =>
        \A i \in 1..Len(last.pre_cur) :
            LET t == last.pre_cur[i][1]
                e == last.pre_cur[i][2]
                v == is_valid(Here, t, FALSE)
            IN  e <= last.reads[1] =>
                    /\ last.exc = "none"
                    /\ ~In(t, current_tokens)
                    /\ OK(v)
                    /\ v.ret = [reg |-> FALSE, exp |-> e, old |-> TRUE]

\* C6: is_valid(t, clean=True) never returns reg = True for a token whose
\* expiry is <= the time its sweep read, and a token that was live and due
\* when the call began is reported {reg: False, old: True, exp: its expiry}.
C6_ExpiredNeverValid ==
    (last.op = "is_valid" /\ last.clean) =>
        LET t == last.toks[1]
        IN  /\ (last.exc = "none" /\ last.ret.reg /\ last.reads # <<>>)
                   => last.ret.exp > last.reads[1]
            /\ (In(t, last.pre_cur) /\ Get(last.pre_cur, t) <= last.reads[1])
                   => /\ last.exc = "none"
                      /\ last.ret = [reg |-> FALSE,
                                     exp |-> Get(last.pre_cur, t),
                                     old |-> TRUE]

\* C7: is_valid(t), with its default clean=True, returns exactly
\* {reg: False, exp: 0, old: False} and raises nothing for every t that is
\* a key of neither dictionary.
C7_UnknownTokenIsUnknown ==
    (/\ last.op = "is_valid"
     /\ last.clean
     /\ ~In(last.toks[1], last.pre_cur)
     /\ ~In(last.toks[1], last.pre_exd)) =>
        /\ last.exc = "none"
        /\ last.ret = Unknown

\* C8: unregister(t1..tN), clr=False, of strings: the named tokens that are
\* live after the sweep leave current_tokens and are in expired_tokens with
\* the expiry they held, every other live token stays with its expiry, the
\* call returns their number plus the number the sweep removed, and named
\* tokens that are not live are skipped without error.
C8_UnregisterMovesNamed ==
    (/\ last.op = "unregister"
     /\ ~last.clr
     /\ last.toks # <<>>
     /\ \A i \in 1..Len(last.toks) : IsStr(last.toks[i])) =>
        LET named   == {last.toks[i] : i \in 1..Len(last.toks)}
            removed == (named \cap Keys(last.pre_cur)) \ Swept
        IN  /\ last.exc = "none"
            /\ Keys(current_tokens) = Keys(last.pre_cur) \ (Swept \cup named)
            /\ \A t \in Keys(current_tokens) :
                   Get(current_tokens, t) = Get(last.pre_cur, t)
            /\ \A t \in removed :
                   /\ In(t, expired_tokens)
                   /\ Get(expired_tokens, t) = Get(last.pre_cur, t)
            /\ last.ret = Cardinality(removed) + Cardinality(Swept)

\* C9: unregister(clr=True) completes, returns the number of entries
\* current_tokens held, leaves current_tokens empty and every token that
\* was live in expired_tokens.
C9_UnregisterAllEmpties ==
    (last.op = "unregister" /\ last.clr) =>
        /\ last.exc = "none"
        /\ last.ret = Len(last.pre_cur)
        /\ current_tokens = <<>>
        /\ Keys(last.pre_cur) \subseteq Keys(expired_tokens)

\* C10: clean_expired() removes from current_tokens exactly the entries
\* whose expiry is <= the time it reads, leaves the others with their
\* expiry, moves the removed ones into expired_tokens and returns their
\* number.
C10_CleanExpiredRemovesDue ==
    (last.op = "clean_expired" /\ last.pre_cur # <<>>) =>
        LET due == Due(last.pre_cur, last.reads[1])
        IN  /\ last.exc = "none"
            /\ Keys(current_tokens) = Keys(last.pre_cur) \ due
            /\ \A t \in Keys(current_tokens) :
                   Get(current_tokens, t) = Get(last.pre_cur, t)
            /\ \A t \in due :
                   /\ In(t, expired_tokens)
                   /\ Get(expired_tokens, t) = Get(last.pre_cur, t)
            /\ last.ret = Cardinality(due)

\* how often the call in last entered the method f
Count(calls, f) == Cardinality({i \in 1..Len(calls) : calls[i] = f})

\* the items of the dictionary d, without their order
Items(d) == {d[i] : i \in 1..Len(d)}

\* C11: clean_expired() called a second time right after a clean_expired()
\* call, with no advance of the clock and no registration between the two,
\* returns 0 and changes neither dictionary.
C11_CleanExpiredIdempotent ==
    last.op = "clean_expired" =>
        LET now    == IF last.reads = <<>> THEN clock ELSE last.reads[1]
            second == clean_expired([Here EXCEPT !.clk = now])
        IN  /\ OK(second)
            /\ second.ret = 0
            /\ second.cur = current_tokens
            /\ second.exd = expired_tokens

\* C12: unexpire(t1..tn) raises nothing; a token that was in expired_tokens
\* and not in current_tokens is live again with iat a reading of the clock
\* and exp = iat + the lifetime asked for, is out of expired_tokens and is in
\* the returned map; a token that was live or unknown is not in the map and
\* keeps its membership and expiry.
C12_UnexpireRevives ==
    last.op = "unexpire" =>
        /\ last.exc = "none"
        /\ \A i \in 1..Len(last.toks) :
               LET t    == last.toks[i]
                   life == IF last.ea = NoInt THEN expire_after ELSE last.ea[1]
               IN  IF In(t, last.pre_exd) /\ ~In(t, last.pre_cur)
                   THEN /\ In(t, last.ret)
                        /\ Get(last.ret, t).iat \in Items(last.reads)
                        /\ Get(last.ret, t).exp = Get(last.ret, t).iat + life
                        /\ In(t, current_tokens)
                        /\ Get(current_tokens, t) = Get(last.ret, t).exp
                        /\ ~In(t, expired_tokens)
                   ELSE /\ ~In(t, last.ret)
                        /\ In(t, current_tokens) <=> In(t, last.pre_cur)
                        /\ In(t, expired_tokens) <=> In(t, last.pre_exd)
                        /\ In(t, last.pre_cur) =>
                               Get(current_tokens, t) = Get(last.pre_cur, t)

\* C13: are_valid(t1..tn) raises nothing and returns a map with exactly the
\* given tokens as keys, each with the {reg, exp, old} that is_valid reports
\* for it on the state the call leaves behind.
C13_AreValidMapsEachToken ==
    last.op = "are_valid" =>
        /\ last.exc = "none"
        /\ Keys(last.ret) = Items(last.toks)
        /\ \A t \in Items(last.toks) : Get(last.ret, t) = Info(Here, t)

\* C14: one are_valid call with the default clean=True enters clean_expired
\* exactly once, before its first is_valid lookup, whatever the number of
\* tokens.
C14_AreValidSweepsOnce ==
    (last.op = "are_valid" /\ last.clean) =>
        /\ Count(last.calls, "clean_expired") = 1
        /\ \A i \in 1..Len(last.calls) :
               last.calls[i] = "is_valid" =>
                   \E j \in 1..(i - 1) : last.calls[j] = "clean_expired"

\* C15: when the key generator has returned a string whose length is not
\* keysize, register_new raises ValueError and current_tokens holds no
\* entry it did not hold before; when the length is keysize the call does
\* not raise ValueError.
C15_KeyLengthChecked ==
    (last.op = "register_new" /\ Count(last.calls, "keyfunc") = 1) =>
        IF Len(last.toks[1]) # keysize
        THEN /\ last.exc = "ValueError"
             /\ Items(current_tokens) \subseteq Items(last.pre_cur)
        ELSE last.exc # "ValueError"

\* the key generator has returned a string that is too short or too long
C15_Witness ==
    /\ last.op = "register_new"
    /\ Count(last.calls, "keyfunc") = 1
    /\ Len(last.toks[1]) # keysize
    /\ last.exc = "ValueError"

\* C16: unregister with the default clean=True and an argument that is not a
\* string raises TypeError and leaves both dictionaries as they were before
\* the call.
C16_UnregisterNonStringTypeError ==
    (/\ last.op = "unregister"
     /\ last.clean
     /\ ~last.clr
     /\ \E i \in 1..Len(last.toks) : ~IsStr(last.toks[i])) =>
        /\ last.exc = "TypeError"
        /\ current_tokens = last.pre_cur
        /\ expired_tokens = last.pre_exd

\* C17: in every reachable state every key of current_tokens has exactly
\* keysize characters, preset tokens included.
C17_KeysHaveKeysize ==
    \A k \in Keys(current_tokens) : Len(k) = keysize

\* C18: when NThreads threads have each called register_new on a registry
\* that was empty, the key generator has returned NThreads distinct strings
\* of keysize characters and every call has ended, every call has returned
\* its token, every token is a key of current_tokens, and current_tokens
\* has exactly NThreads entries.
C18_ConcurrentRegisterNew ==
    (/\ last.pre_cur = <<>>
     /\ \A t \in 1..Len(threads) :
            /\ threads[t].op = "register_new"
            /\ threads[t].pc = "done"
            /\ Len(threads[t].key) = keysize
     /\ Cardinality({threads[t].key : t \in 1..Len(threads)}) = Len(threads)) =>
        /\ \A t \in 1..Len(threads) :
               /\ threads[t].exc = "none"
               /\ threads[t].ret[1].tok = threads[t].key
               /\ In(threads[t].key, current_tokens)
        /\ Len(current_tokens) = Len(threads)

PendingDelete == {"un_get", "un_lock", "un_del", "ce_lock", "ce_del"}

\* the sum of the numbers the threads 1..n have returned
RECURSIVE Counted(_)
Counted(n) == IF n = 0 THEN 0 ELSE Counted(n - 1) + threads[n].ret[1]

\* C21: under concurrent unregister, clean_expired and register_new calls a
\* thread that has found a token to delete holds the lock from the test to
\* the deletion, no unregister or clean_expired call ends in KeyError, and
\* when unregister and clean_expired calls have all returned, the numbers
\* they returned add up to the number of tokens removed.
C21_TestAndDeleteInOneSection ==
    /\ \A t \in 1..Len(threads) :
           /\ threads[t].pc \in PendingDelete => threads[t].holds
           /\ threads[t].op \in {"unregister", "clean_expired"} =>
                  threads[t].exc # "KeyError"
    /\ (/\ threads # <<>>
        /\ \A t \in 1..Len(threads) :
               /\ threads[t].op \in {"unregister", "clean_expired"}
               /\ threads[t].pc = "done"
               /\ threads[t].exc = "none") =>
           Counted(Len(threads)) = Len(last.pre_cur) - Len(current_tokens)

\* the positions of a thread in _log_expired_tokens between its reading of
\* expired_tokens for the eviction and its insertion of the batch
PendingEviction == {"cek_lock", "cek_write", "log_lock", "log_write"}

\* C22: under concurrent calls a thread holds the lock from its reading of
\* expired_tokens for the eviction to its insertion of the batch,
\* expired_tokens never holds more than the retention bound of 30 entries,
\* and an eviction is written from a reading of expired_tokens that no
\* other call has changed since.
C22_EvictAndInsertAtomic ==
    /\ \A t \in 1..Len(threads) :
           /\ threads[t].pc \in PendingEviction => threads[t].holds
           /\ threads[t].pc = "cek_write" =>
                  Items(threads[t].stoks) = Items(expired_tokens)
    /\ Len(expired_tokens) <= DefaultTrash

\* every thread's call has returned or raised
AllDone == \A t \in 1..Len(threads) : threads[t].pc = "done"

C23_RandomKeyHasKeysize ==
    (last.op = "register_new" /\ Count(last.calls, "keyfunc") = 1) =>
        /\ Len(last.toks[1]) = keysize
        /\ last.exc # "ValueError"

====
